---- MODULE Spec2Model ----
(***************************************************************************)
(* Model of the art-title-generator.  Spec: the server routes (title,      *)
(* critique, series, who, abstractify, statement) with their request       *)
(* validation, the upstream generation call, the validate / strict-retry   *)
(* protocol and the response.  ValidatorSpec: the result validators        *)
(* applied to candidates.  ScaleSpec: the two versions of scaleToFit.      *)
(* NormalizerSpec: resizeAndConvertToJpeg of the pages.                    *)
(***************************************************************************)
EXTENDS Integers, Sequences, FiniteSets, TLC

(***************************************************************************)
(* JSON values as JavaScript sees them.  A string is its leading           *)
(* characters s together with its length len (len >= Len(s)), so that a    *)
(* ten-million character payload is a value like any other.                *)
(***************************************************************************)
Undef == [t |-> "undef"]
JNull == [t |-> "null"]
JBool(b) == [t |-> "bool", b |-> b]
JNum(n) == [t |-> "num", n |-> n]
Txt(s, n) == [t |-> "str", s |-> s, len |-> n]
Str(s) == Txt(s, Len(s))
JArr(items) == [t |-> "arr", items |-> items]
JObj(f) == [t |-> "obj", f |-> f]

Min(a, b) == IF a < b THEN a ELSE b

\* typeof v
TypeOf(v) ==
  CASE v.t = "undef" -> "undefined"
    [] v.t = "bool" -> "boolean"
    [] v.t = "num" -> "number"
    [] v.t = "str" -> "string"
    [] OTHER -> "object"

\* ToBoolean(v), as used by !v and v && ...
Truthy(v) ==
  CASE v.t = "undef" -> FALSE
    [] v.t = "null" -> FALSE
    [] v.t = "bool" -> v.b
    [] v.t = "num" -> v.n # 0
    [] v.t = "str" -> v.len > 0
    [] OTHER -> TRUE

\* v[k] for a property name k that only a plain object can carry
Get(v, k) == IF v.t = "obj" /\ k \in DOMAIN v.f THEN v.f[k] ELSE Undef

IsArray(v) == v.t = "arr"

\* Object.values(v) of an object or array, as a set
Values(v) ==
  CASE v.t = "obj" -> {v.f[k] : k \in DOMAIN v.f}
    [] v.t = "arr" -> {v.items[i] : i \in 1..Len(v.items)}
    [] OTHER -> {}

\* items.every(P) is written \A i \in 1..Len(items) : P(items[i])
IsStringLonger(v, n) == TypeOf(v) = "string" /\ v.len > n

\* s.startsWith(p) for a string value s and a literal p
StartsWith(v, p) == v.len >= Len(p) /\ Len(v.s) >= Len(p) /\ SubSeq(v.s, 1, Len(p)) = p

\* the characters s.trim() strips that a JSON string of the requests carries
WhiteSpace == {" ", "\t", "\n", "\r"}

\* s.trim() is non-empty
TrimNonEmpty(v) == \E i \in 1..Len(v.s) : SubSeq(v.s, i, i) \notin WhiteSpace

\* s.includes(sub) for actual strings
Includes(s, sub) == \E i \in 1..(Len(s) - Len(sub) + 1) : SubSeq(s, i, i + Len(sub) - 1) = sub

\* s.slice(0, n)
Slice(v, n) == Txt(SubSeq(v.s, 1, Min(n, Len(v.s))), Min(v.len, n))

(***************************************************************************)
(* The result validators, one per route.                                   *)
(***************************************************************************)
isTitleResult(value) ==
  IF ~Truthy(value) \/ TypeOf(value) # "object" THEN FALSE
  ELSE
    LET toneOk == TypeOf(Get(value, "tone")) = "string"
        titles == Get(value, "titles")
        titlesOk == IsArray(titles) /\ \A i \in 1..Len(titles.items) : TypeOf(titles.items[i]) = "string"
        tr == Get(value, "top_rationales")
        trOk == IsArray(tr) /\ \A i \in 1..Len(tr.items) :
                  /\ Truthy(tr.items[i])
                  /\ TypeOf(tr.items[i]) = "object"
                  /\ TypeOf(Get(tr.items[i], "title")) = "string"
                  /\ TypeOf(Get(tr.items[i], "why_it_fits")) = "string"
        tags == Get(value, "tags")
        tagsOk == IsArray(tags) /\ \A i \in 1..Len(tags.items) : TypeOf(tags.items[i]) = "string"
    IN toneOk /\ titlesOk /\ trOk /\ tagsOk


\* isCritiqueResult without the upper bound on the number of suggestions
isCritiqueResult_noUpperBound(value) ==
  IF ~Truthy(value) \/ TypeOf(value) # "object" THEN FALSE
  ELSE
    LET openingOk == IsStringLonger(Get(value, "opening"), 50)
        closingOk == IsStringLonger(Get(value, "closing"), 15)
        suggestions == Get(value, "suggestions")
    IN IF ~IsArray(suggestions) \/ Len(suggestions.items) < 3 THEN FALSE
       ELSE LET suggestionsOk == \A i \in 1..Len(suggestions.items) : IsStringLonger(suggestions.items[i], 30)
            IN openingOk /\ closingOk /\ suggestionsOk

isCritiqueResult(value) ==
  IF ~Truthy(value) \/ TypeOf(value) # "object" THEN FALSE
  ELSE
    LET openingOk == IsStringLonger(Get(value, "opening"), 50)
        closingOk == IsStringLonger(Get(value, "closing"), 15)
        suggestions == Get(value, "suggestions")
    IN IF ~IsArray(suggestions) \/ Len(suggestions.items) < 3 \/ Len(suggestions.items) > 5 THEN FALSE
       ELSE LET suggestionsOk == \A i \in 1..Len(suggestions.items) : IsStringLonger(suggestions.items[i], 30)
            IN openingOk /\ closingOk /\ suggestionsOk

isSeriesResult(value) ==
  IF ~Truthy(value) \/ TypeOf(value) # "object" THEN FALSE
  ELSE
    LET openingOk == IsStringLonger(Get(value, "opening"), 50)
        closingOk == IsStringLonger(Get(value, "closing"), 20)
        ideas == Get(value, "ideas")
    IN IF ~IsArray(ideas) \/ Len(ideas.items) # 5 THEN FALSE
       ELSE LET ideasOk == \A i \in 1..Len(ideas.items) :
                  LET idea == ideas.items[i] IN
                  IF ~Truthy(idea) \/ TypeOf(idea) # "object" THEN FALSE
                  ELSE /\ IsStringLonger(Get(idea, "title"), 3)
                       /\ IsStringLonger(Get(idea, "description"), 30)
                       /\ IsStringLonger(Get(idea, "practical_note"), 20)
            IN openingOk /\ closingOk /\ ideasOk

isWhoResult(value) ==
  IF ~Truthy(value) \/ TypeOf(value) # "object" THEN FALSE
  ELSE
    LET artists == Get(value, "artists")
    IN IF ~IsArray(artists) \/ Len(artists.items) < 4 \/ Len(artists.items) > 5 THEN FALSE
       ELSE \A i \in 1..Len(artists.items) :
              LET artist == artists.items[i] IN
              IF ~Truthy(artist) \/ TypeOf(artist) # "object" THEN FALSE
              ELSE /\ IsStringLonger(Get(artist, "name"), 2)
                   /\ IsStringLonger(Get(artist, "visual_connection"), 50)
                   /\ IsStringLonger(Get(artist, "suggestion"), 20)

\* one path of the abstractify result: the callback of paths.every
AbstractPathOk(p) ==
  IF ~Truthy(p) \/ TypeOf(p) # "object" THEN FALSE
  ELSE
    LET levelVal == Get(p, "level")
        labelOk == TypeOf(Get(p, "label")) = "string"
        wtdOk == TypeOf(Get(p, "what_to_do")) = "string"
        whyOk == TypeOf(Get(p, "why_interesting")) = "string"
        prompts == Get(p, "prompts")
        promptsOk == \/ prompts = Undef
                     \/ /\ TypeOf(prompts) = "object"
                        /\ prompts # JNull
                        /\ \A x \in Values(prompts) : x = Undef \/ TypeOf(x) = "string"
    IN /\ levelVal.t = "num" /\ levelVal.n \in 1..5
       /\ labelOk /\ wtdOk /\ whyOk /\ promptsOk


\* isAbstractifyResult without the set of levels: five valid paths are enough
isAbstractifyResult_anyFive(x) ==
  IF ~Truthy(x) \/ TypeOf(x) # "object" THEN FALSE
  ELSE
    LET briefOk == IsStringLonger(Get(x, "brief_read"), 20)
        closingOk == IsStringLonger(Get(x, "closing_line"), 5)
        paths == Get(x, "paths")
    IN IF ~IsArray(paths) \/ Len(paths.items) # 5 THEN FALSE
       ELSE LET pathOk == \A i \in 1..Len(paths.items) : AbstractPathOk(paths.items[i])
            IN briefOk /\ closingOk /\ pathOk

\* isResult of the abstractify route.  every() stops at the first failing
\* path, so levels holds the level of each object visited up to that one.
isAbstractifyResult(x) ==
  IF ~Truthy(x) \/ TypeOf(x) # "object" THEN FALSE
  ELSE
    LET briefOk == IsStringLonger(Get(x, "brief_read"), 20)
        closingOk == IsStringLonger(Get(x, "closing_line"), 5)
        paths == Get(x, "paths")
    IN IF ~IsArray(paths) \/ Len(paths.items) # 5 THEN FALSE
       ELSE LET n == Len(paths.items)
                visited == {i \in 1..n : \A j \in 1..(i - 1) : AbstractPathOk(paths.items[j])}
                added == {i \in visited : Truthy(paths.items[i]) /\ TypeOf(paths.items[i]) = "object"}
                levels == {Get(paths.items[i], "level") : i \in added}
                pathOk == \A i \in 1..n : AbstractPathOk(paths.items[i])
                levelsOk == \A k \in 1..5 : JNum(k) \in levels
            IN briefOk /\ closingOk /\ pathOk /\ levelsOk

\* isResult of the statement route
isStatementResult(x) ==
  IF ~Truthy(x) \/ TypeOf(x) # "object" THEN FALSE
  ELSE
    LET s == IsStringLonger(Get(x, "statement"), 20)
        b == IsStringLonger(Get(x, "bio"), 20)
        tips == Get(x, "tips")
        tt == IsArray(tips) /\ \A i \in 1..Len(tips.items) : TypeOf(tips.items[i]) = "string"
    IN s /\ b /\ tt

(***************************************************************************)
(* Program constants.                                                      *)
(***************************************************************************)
MaxImageChars == 10000000
DebugChars == 4000
StatementDebugChars == 2000

(***************************************************************************)
(* Requests.  A raw body is either not JSON at all (Malformed) or a JSON   *)
(* value; the routes cast it to their Payload type without checking it.    *)
(***************************************************************************)
MaxRequests == 2

Malformed == [t |-> "malformed"]

ImageValues ==
  { Undef, JNull, Str(""), Str("http://x/a.png"), JNum(42),
    Txt("data:image/jpeg;base64,", 1200000),
    Txt("data:image/jpeg;base64,", MaxImageChars),
    Txt("data:image/jpeg;base64,", MaxImageChars + 500000) }

DescriptionValues == { Undef, Str(""), Str("   "), Str(" \t\n"), Str("a misty moor") }

\* an object holding the fields that are present (not Undef)
MkBody(img, desc) ==
  LET val(k) == IF k = "imageDataUrl" THEN img ELSE desc
  IN JObj([k \in {kk \in {"imageDataUrl", "description"} : val(kk) # Undef} |-> val(k)])

RequestBodies ==
  {Malformed, JNull} \cup {MkBody(img, desc) : img \in ImageValues, desc \in DescriptionValues}

(***************************************************************************)
(* Exceptions and responses.                                               *)
(***************************************************************************)
ErrorOf(message) == [isError |-> TRUE, message |-> message]
NonError == [isError |-> FALSE, message |-> ""]

Response(status, body) == [status |-> status, body |-> body]
ErrorBody(message) == JObj([error |-> Str(message)])
Responds(r) == [k |-> "resp", r |-> r]
Throws(e) == [k |-> "throw", e |-> e]
CallModel(strict) == [k |-> "call", strict |-> strict]

\* await req.json()
ReqJson(raw) == IF raw = Malformed THEN Throws(ErrorOf("Unexpected token in JSON")) ELSE [k |-> "value", v |-> raw]

\* const { a, b } = v : destructuring null or undefined throws
Destructurable(v) == v.t \notin {"null", "undef"}

\* x?.m(...) and x.m(...) for a string method m: a value of another type has
\* no such method and the call throws a TypeError
HasStringMethods(v) == v.t = "str"
NotAFunction == ErrorOf("startsWith is not a function")
NotDestructurable == ErrorOf("Cannot destructure property of null")

(***************************************************************************)
(* Request checks of each route: from the entry of POST to the first       *)
(* upstream call.  The outcome is a response, a thrown exception (caught   *)
(* by the route's outer catch) or the first call.                          *)
(***************************************************************************)
\* if (!imageDataUrl?.startsWith("data:image/")) return 400
RequireImage(imageDataUrl) ==
  IF imageDataUrl.t \in {"undef", "null"} THEN Responds(Response(400, ErrorBody("Missing or invalid image")))
  ELSE IF ~HasStringMethods(imageDataUrl) THEN Throws(NotAFunction)
  ELSE IF ~StartsWith(imageDataUrl, "data:image/") THEN Responds(Response(400, ErrorBody("Missing or invalid image")))
  ELSE CallModel(FALSE)

titleCheck(raw) ==
  LET body == ReqJson(raw) IN
  IF body.k = "throw" THEN Responds(Response(400, ErrorBody("Invalid request body")))
  ELSE IF ~Destructurable(body.v) THEN Throws(NotDestructurable)
  ELSE LET imageDataUrl == Get(body.v, "imageDataUrl")
           img == RequireImage(imageDataUrl)
       IN IF img.k # "call" THEN img
          ELSE IF imageDataUrl.len > MaxImageChars
               THEN Responds(Response(400, ErrorBody("Image too large. Please use a smaller image.")))
               ELSE CallModel(FALSE)

critiqueCheck(raw) ==
  LET body == ReqJson(raw) IN
  IF body.k = "throw" THEN body
  ELSE IF ~Destructurable(body.v) THEN Throws(NotDestructurable)
  ELSE RequireImage(Get(body.v, "imageDataUrl"))

seriesCheck(raw) ==
  LET body == ReqJson(raw) IN
  IF body.k = "throw" THEN body
  ELSE IF ~Destructurable(body.v) THEN Throws(NotDestructurable)
  ELSE RequireImage(Get(body.v, "imageDataUrl"))

abstractifyCheck(raw) ==
  LET body == ReqJson(raw) IN
  IF body.k = "throw" THEN body
  ELSE IF ~Destructurable(body.v) THEN Throws(NotDestructurable)
  ELSE RequireImage(Get(body.v, "imageDataUrl"))


\* whoCheck that tests description without trimming it
whoCheck_untrimmed(raw) ==
  LET body == ReqJson(raw) IN
  IF body.k = "throw" THEN body
  ELSE IF ~Destructurable(body.v) THEN Throws(NotDestructurable)
  ELSE LET imageDataUrl == Get(body.v, "imageDataUrl")
           description == Get(body.v, "description")
           noDescription == ~Truthy(description)
       IN IF ~Truthy(imageDataUrl) /\ noDescription
          THEN Responds(Response(400, ErrorBody("Please provide either an image or a description")))
          ELSE IF Truthy(imageDataUrl) /\ ~HasStringMethods(imageDataUrl) THEN Throws(NotAFunction)
          ELSE IF Truthy(imageDataUrl) /\ ~StartsWith(imageDataUrl, "data:image/")
          THEN Responds(Response(400, ErrorBody("Invalid image format")))
          ELSE CallModel(FALSE)

whoCheck(raw) ==
  LET body == ReqJson(raw) IN
  IF body.k = "throw" THEN body
  ELSE IF ~Destructurable(body.v) THEN Throws(NotDestructurable)
  ELSE LET imageDataUrl == Get(body.v, "imageDataUrl")
           description == Get(body.v, "description")
           \* description?.trim()
           noDescription == description.t \in {"undef", "null"} \/ ~TrimNonEmpty(description)
       IN IF ~Truthy(imageDataUrl) /\ description.t \notin {"undef", "null", "str"}
          THEN Throws(ErrorOf("trim is not a function"))
          ELSE IF ~Truthy(imageDataUrl) /\ noDescription
          THEN Responds(Response(400, ErrorBody("Please provide either an image or a description")))
          ELSE IF Truthy(imageDataUrl) /\ ~HasStringMethods(imageDataUrl) THEN Throws(NotAFunction)
          ELSE IF Truthy(imageDataUrl) /\ ~StartsWith(imageDataUrl, "data:image/")
          THEN Responds(Response(400, ErrorBody("Invalid image format")))
          ELSE CallModel(FALSE)

\* the statement route reads body.tone, body.name, ... and checks nothing
statementCheck(raw) ==
  LET body == ReqJson(raw) IN
  IF body.k = "throw" THEN body
  ELSE IF ~Destructurable(body.v) THEN Throws(ErrorOf("Cannot read properties of null"))
  ELSE CallModel(FALSE)

(***************************************************************************)
(* The outer catch of each route.                                          *)
(***************************************************************************)
titleCatch(e) ==
  LET message == IF e.isError
                 THEN IF Includes(e.message, "Invalid")
                      THEN "Image processing error: " \o e.message
                      ELSE e.message
                 ELSE "Unexpected server error"
  IN Response(500, ErrorBody(message))

\* critique, series, who, abstractify and statement share this catch
plainCatch(e) ==
  LET msg == IF e.isError THEN e.message ELSE "Server error"
  IN Response(500, ErrorBody(msg))

(***************************************************************************)
(* The upstream generator.  A reply is a thrown exception or a completion  *)
(* whose content is null or a text.  A text is a string together with what *)
(* JSON.parse makes of it: a value, or a SyntaxError.                      *)
(***************************************************************************)
SyntaxError == [t |-> "SyntaxError"]
MkText(s, n, json) == [t |-> "str", s |-> s, len |-> n, json |-> json]
Rep(n, v) == [i \in 1..n |-> v]

Completion(content) == [k |-> "completion", content |-> content]

\* completion.choices?.[0]?.message?.content ?? ""
ContentOrEmpty(completion) ==
  IF completion.content.t \in {"null", "undef"} THEN MkText("", 0, SyntaxError) ELSE completion.content

\* try { parsed = JSON.parse(text) } catch { parsed = undefined }
ParseOrUndefined(text) == IF text.json = SyntaxError THEN Undef ELSE text.json

\* try { parsed = JSON.parse(text) } catch { /* ignore */ } : parsed keeps its value
ParseOrKeep(parsed, text) == IF text.json = SyntaxError THEN parsed ELSE text.json

ProseTexts ==
  { MkText("", 0, SyntaxError),
    MkText("Here are some ideas", 19, SyntaxError),
    MkText("Sure! Here is the JSON", 2500, SyntaxError),
    MkText("I'm sorry, but I can't", 4001, SyntaxError),
    MkText("null", 4, JNull),
    MkText("42", 2, JNum(42)),
    MkText("{}", 2, JObj(<<>>)) }

titleCandidate(tone, nTitles, nRationales, nTags) ==
  JObj([tone |-> tone,
        titles |-> JArr(Rep(nTitles, Txt("Low Tide", 8))),
        top_rationales |-> JArr(Rep(nRationales, JObj([title |-> Txt("Low Tide", 8), why_it_fits |-> Txt("The", 60)]))),
        tags |-> JArr(Rep(nTags, Txt("coast", 5)))])

titleValue(tone, nTitles) ==
  JObj([tone |-> tone,
        titles |-> JArr(Rep(nTitles, Txt("Low Tide", 8))),
        top_rationales |-> JArr(Rep(3, JObj([title |-> Txt("Low Tide", 8), why_it_fits |-> Txt("The", 60)]))),
        tags |-> JArr(Rep(5, Txt("coast", 5)))])

critiqueValue(nOpening, nSuggestions) ==
  JObj([opening |-> Txt("There is", nOpening),
        suggestions |-> JArr(Rep(nSuggestions, Txt("Soften the", 31))),
        closing |-> Txt("Keep going", 16)])

seriesValue(nOpening, nIdeas) ==
  JObj([opening |-> Txt("This work", nOpening),
        ideas |-> JArr(Rep(nIdeas, JObj([title |-> Txt("Tide", 4), description |-> Txt("A set", 31),
                                          practical_note |-> Txt("Try", 21)]))),
        closing |-> Txt("Feel free", 21)])

whoValue(nArtists, nName) ==
  JObj([artists |-> JArr(Rep(nArtists, JObj([name |-> Txt("Joa", nName), visual_connection |-> Txt("Both", 51),
                                              suggestion |-> Txt("Look at", 21)])))])

abstractifyValue(levels, nBrief) ==
  JObj([brief_read |-> Txt("A quiet", nBrief),
        paths |-> JArr([i \in 1..Len(levels) |->
                          JObj([level |-> JNum(levels[i]), label |-> Txt("Gentle", 6),
                                what_to_do |-> Txt("Block in", 40), why_interesting |-> Txt("It", 40)])]),
        closing_line |-> Txt("Go on", 6)])

statementValue(nStatement, tips) ==
  JObj([statement |-> Txt("My work", nStatement), bio |-> Txt("She is", 21), tips |-> tips])

\* what the generator may answer on each route: prose, near misses and
\* conforming candidates, short and longer than the debug excerpt
Texts(r) ==
  ProseTexts \cup
  CASE r = "title" ->
         { MkText("{\"tone\":\"poetic\"", 900, titleValue(Str("poetic"), 12)),
           MkText("{\"tone\":\"minimal\"", 4200, titleValue(Str("minimal"), 12)),
           MkText("{\"tone\":7", 4100, titleValue(JNum(7), 12)),
           MkText("{\"tone\":\"bold\"", 700, titleCandidate(Str("bold"), 11, 2, 8)) }
    [] r = "critique" ->
         { MkText("{\"opening\":\"There is", 900, critiqueValue(51, 3)),
           MkText("{\"opening\":\"There is a", 4200, critiqueValue(80, 5)),
           MkText("{\"opening\":\"There", 4100, critiqueValue(51, 2)) }
    [] r = "series" ->
         { MkText("{\"opening\":\"This work", 900, seriesValue(51, 5)),
           MkText("{\"opening\":\"This work is", 4200, seriesValue(80, 5)),
           MkText("{\"opening\":\"This", 4100, seriesValue(51, 4)) }
    [] r = "who" ->
         { MkText("{\"artists\":[{\"name\":\"Joa", 900, whoValue(4, 3)),
           MkText("{\"artists\":[{\"name\":\"Joan", 4200, whoValue(5, 12)),
           MkText("{\"artists\":[", 4100, whoValue(3, 3)) }
    [] r = "abstractify" ->
         { MkText("{\"brief_read\":\"A quiet", 900, abstractifyValue(<<1, 2, 3, 4, 5>>, 21)),
           MkText("{\"brief_read\":\"A quiet field", 4200, abstractifyValue(<<5, 3, 1, 2, 4>>, 60)),
           MkText("{\"brief_read\":\"A", 4100, abstractifyValue(<<1, 2, 3, 4, 4>>, 21)) }
    [] r = "statement" ->
         { MkText("{\"statement\":\"My work", 900, statementValue(21, JArr(<<>>))),
           MkText("{\"statement\":\"My work is", 4200, statementValue(90, JArr(Rep(3, Txt("Read", 30))))),
           MkText("{\"statement\":\"My", 4100, statementValue(21, JNull)) }

UpstreamErrors == { ErrorOf("Connection error."), ErrorOf("400 Invalid image data"), NonError }

Replies(r) ==
  {Throws(e) : e \in UpstreamErrors} \cup {Completion(JNull)} \cup {Completion(x) : x \in Texts(r)}

(***************************************************************************)
(* The validate / retry protocol of each route, cut at its awaits: what    *)
(* the handler does when the lenient call settles, when the strict call    *)
(* settles, and the final check that builds the response.                  *)
(***************************************************************************)
Threw(e, text, parsed) == [k |-> "throw", e |-> e, text |-> text, parsed |-> parsed]
Retry(strict, text, parsed) == [k |-> "call", strict |-> strict, text |-> text, parsed |-> parsed]
Done(r, text, parsed) == [k |-> "resp", r |-> r, text |-> text, parsed |-> parsed]


\* DebugOf without the slice
DebugOf_whole(text) == IF TypeOf(text) = "string" THEN Txt(text.s, text.len) ELSE Str("(no content)")

\* typeof text === "string" ? text.slice(0, 4000) : "(no content)"
DebugOf(text) == IF TypeOf(text) = "string" THEN Slice(text, DebugChars) ELSE Str("(no content)")

FormatError(error, debug) == Response(502, JObj([error |-> Str(error), debug |-> debug]))

titleFinish(text, parsed) ==
  IF ~isTitleResult(parsed) THEN FormatError("The model returned an unexpected format.", DebugOf(text))
  ELSE Response(200, parsed)


\* titleAfterLenient with the JSON.parse outside its try: a text that is not
\* JSON throws into the outer catch
titleAfterLenient_parseThrows(reply) ==
  IF reply.k = "throw" THEN Threw(reply.e, Undef, Undef)
  ELSE LET text == ContentOrEmpty(reply)
           parsed == ParseOrUndefined(text)
       IN IF text.json = SyntaxError THEN Threw(ErrorOf("Unexpected end of JSON input"), text, Undef)
          ELSE IF ~isTitleResult(parsed) THEN Retry(TRUE, text, parsed)
          ELSE Done(titleFinish(text, parsed), text, parsed)

titleAfterLenient(reply) ==
  IF reply.k = "throw" THEN Threw(reply.e, Undef, Undef)
  ELSE LET text == ContentOrEmpty(reply)
           parsed == ParseOrUndefined(text)
       IN IF ~isTitleResult(parsed) THEN Retry(TRUE, text, parsed)
          ELSE Done(titleFinish(text, parsed), text, parsed)


\* titleAfterStrict that forgets to parse the strict text again
titleAfterStrict_staleParsed(reply, text0, parsed0) ==
  IF reply.k = "throw" THEN Threw(reply.e, text0, parsed0)
  ELSE LET text == ContentOrEmpty(reply)
       IN Done(titleFinish(text, parsed0), text, parsed0)

titleAfterStrict(reply, text0, parsed0) ==
  IF reply.k = "throw" THEN Threw(reply.e, text0, parsed0)
  ELSE LET text == ContentOrEmpty(reply)
           parsed == ParseOrUndefined(text)
       IN Done(titleFinish(text, parsed), text, parsed)

critiqueFinish(text, parsed) ==
  IF ~isCritiqueResult(parsed) THEN FormatError("Unexpected format from model.", DebugOf(text))
  ELSE Response(200, parsed)

critiqueAfterLenient(reply) ==
  IF reply.k = "throw" THEN Threw(reply.e, Undef, Undef)
  ELSE LET text == ContentOrEmpty(reply)
           parsed == ParseOrUndefined(text)
       IN IF ~isCritiqueResult(parsed) THEN Retry(TRUE, text, parsed)
          ELSE Done(critiqueFinish(text, parsed), text, parsed)


\* critiqueAfterStrict that swallows a failed call and goes on to the final check
critiqueAfterStrict_swallows(reply, text0, parsed0) ==
  IF reply.k = "throw" THEN Done(critiqueFinish(text0, parsed0), text0, parsed0)
  ELSE LET text == ContentOrEmpty(reply)
           parsed == ParseOrUndefined(text)
       IN Done(critiqueFinish(text, parsed), text, parsed)

critiqueAfterStrict(reply, text0, parsed0) ==
  IF reply.k = "throw" THEN Threw(reply.e, text0, parsed0)
  ELSE LET text == ContentOrEmpty(reply)
           parsed == ParseOrUndefined(text)
       IN Done(critiqueFinish(text, parsed), text, parsed)

seriesFinish(text, parsed) ==
  IF ~isSeriesResult(parsed) THEN FormatError("Unexpected format from model.", DebugOf(text))
  ELSE Response(200, parsed)

seriesAfterLenient(reply) ==
  IF reply.k = "throw" THEN Threw(reply.e, Undef, Undef)
  ELSE LET text == ContentOrEmpty(reply)
           parsed == ParseOrUndefined(text)
       IN IF ~isSeriesResult(parsed) THEN Retry(TRUE, text, parsed)
          ELSE Done(seriesFinish(text, parsed), text, parsed)


\* seriesAfterStrict with the retry left open: an invalid strict result is retried again
seriesAfterStrict_retriesAgain(reply, text0, parsed0) ==
  IF reply.k = "throw" THEN Threw(reply.e, text0, parsed0)
  ELSE LET text == ContentOrEmpty(reply)
           parsed == ParseOrUndefined(text)
       IN IF ~isSeriesResult(parsed) THEN Retry(TRUE, text, parsed)
          ELSE Done(seriesFinish(text, parsed), text, parsed)

seriesAfterStrict(reply, text0, parsed0) ==
  IF reply.k = "throw" THEN Threw(reply.e, text0, parsed0)
  ELSE LET text == ContentOrEmpty(reply)
           parsed == ParseOrUndefined(text)
       IN Done(seriesFinish(text, parsed), text, parsed)

whoFinish(text, parsed) ==
  IF ~isWhoResult(parsed) THEN FormatError("Unexpected format from model.", DebugOf(text))
  ELSE Response(200, parsed)


\* whoAfterLenient without the validity test: the strict call is always made
whoAfterLenient_alwaysRetries(reply) ==
  IF reply.k = "throw" THEN Threw(reply.e, Undef, Undef)
  ELSE LET text == ContentOrEmpty(reply)
           parsed == ParseOrUndefined(text)
       IN Retry(TRUE, text, parsed)

whoAfterLenient(reply) ==
  IF reply.k = "throw" THEN Threw(reply.e, Undef, Undef)
  ELSE LET text == ContentOrEmpty(reply)
           parsed == ParseOrUndefined(text)
       IN IF ~isWhoResult(parsed) THEN Retry(TRUE, text, parsed)
          ELSE Done(whoFinish(text, parsed), text, parsed)

whoAfterStrict(reply, text0, parsed0) ==
  IF reply.k = "throw" THEN Threw(reply.e, text0, parsed0)
  ELSE LET text == ContentOrEmpty(reply)
           parsed == ParseOrUndefined(text)
       IN Done(whoFinish(text, parsed), text, parsed)

abstractifyFinish(text, parsed) ==
  IF ~isAbstractifyResult(parsed) THEN FormatError("Unexpected format from model.", DebugOf(text))
  ELSE Response(200, parsed)


\* abstractifyAfterLenient without the validity test: a valid first value
\* stays in parsed when the strict text does not parse
abstractifyAfterLenient_alwaysRetries(reply) ==
  IF reply.k = "throw" THEN Threw(reply.e, Undef, Undef)
  ELSE LET text == ContentOrEmpty(reply)
           parsed == ParseOrKeep(Undef, text)
       IN Retry(TRUE, text, parsed)

abstractifyAfterLenient(reply) ==
  IF reply.k = "throw" THEN Threw(reply.e, Undef, Undef)
  ELSE LET text == ContentOrEmpty(reply)
           parsed == ParseOrKeep(Undef, text)
       IN IF ~isAbstractifyResult(parsed) THEN Retry(TRUE, text, parsed)
          ELSE Done(abstractifyFinish(text, parsed), text, parsed)

abstractifyAfterStrict(reply, text0, parsed0) ==
  IF reply.k = "throw" THEN Threw(reply.e, text0, parsed0)
  ELSE LET text == ContentOrEmpty(reply)
           parsed == ParseOrKeep(parsed0, text)
       IN Done(abstractifyFinish(text, parsed), text, parsed)

\* the statement route makes one call and has no retry
statementAfterCall(reply) ==
  IF reply.k = "throw" THEN Threw(reply.e, Undef, Undef)
  ELSE LET text == ContentOrEmpty(reply)
           parsed == ParseOrKeep(Undef, text)
       IN IF ~isStatementResult(parsed)
          THEN Done(FormatError("Unexpected format from model.", Slice(text, StatementDebugChars)), text, parsed)
          ELSE Done(Response(200, parsed), text, parsed)

(***************************************************************************)
(* State: one request at a time (requests share no state).                 *)
(***************************************************************************)
VARIABLES
  route,    \* the route handling the current request, "none" before the first
  pc,       \* "idle", "lenient" / "strict" (awaiting that call), "done"
  body,     \* the raw request body
  text,     \* the handler's local text
  parsed,   \* the handler's local parsed
  calls,    \* upstream calls of this request, in order: [strict, reply]
  resp,     \* the response sent, or NoResponse
  served    \* requests received so far

\* a pure function of the program applied to one input
VARIABLES
  fn,       \* the function, "none" when the routes are running
  arg,      \* its argument
  out       \* NotApplied, or the value it returned

\* one run of a page's image normalizer
VARIABLES
  page,            \* the page whose resizeAndConvertToJpeg runs, "none" before
  npc,             \* "idle", "reading", "decoding", "loading", "encoding", "returned", "failed"
  path,            \* "bitmap" in the try, "image" in the fallback
  canvas,          \* width and height of the canvas
  currentQuality,  \* the quality of the last toDataURL, in hundredths
  outDataUrl,      \* the length of the data URL of the last toDataURL
  qualities,       \* the qualities passed to toDataURL, in order
  promise          \* NotSettled, or how the promise settled

clientVars == <<page, npc, path, canvas, currentQuality, outDataUrl, qualities, promise>>

\* one mounted tool page: its React state and the work it has pending
VARIABLES
  tool,       \* the page component, "none" when no page is mounted
  image,      \* useState imageDataUrl: NoImage, or the data URL held
  loading,    \* useState loading
  banner,     \* useState error of the title and abstractify pages, "" when none
  result,     \* useState result: NoResult, or the data stored
  described,  \* who page: description.trim() is not empty
  reading,    \* FileReader loads and resizeAndConvertToJpeg promises pending
  inflight,   \* fetches pending
  event,      \* the handler that ran last, its input and what it alerted
  selected,   \* files handed to the page so far
  sent        \* generate requests sent so far

pageVars == <<tool, image, loading, banner, result, described, reading, inflight,
              event, selected, sent>>

vars == <<route, pc, body, text, parsed, calls, resp, served, fn, arg, out,
          page, npc, path, canvas, currentQuality, outDataUrl, qualities, promise,
          tool, image, loading, banner, result, described, reading, inflight,
          event, selected, sent>>

\* what a request handler leaves alone
offServer == <<fn, arg, out, clientVars, pageVars>>

NoImage == [n |-> 0, len |-> 0]
NoResult == [k |-> "null"]
NoFile == [type |-> "", size |-> 0]
NoOutcome == [k |-> "none"]
Event(k, file, outcome, alert) == [k |-> k, file |-> file, outcome |-> outcome, alert |-> alert]

\* no page is mounted
NoPage ==
  /\ tool = "none"
  /\ image = NoImage
  /\ loading = FALSE
  /\ banner = ""
  /\ result = NoResult
  /\ described = FALSE
  /\ reading = {}
  /\ inflight = {}
  /\ event = Event("none", NoFile, NoOutcome, "")
  /\ selected = 0
  /\ sent = 0

NotSettled == [k |-> "none"]
NoNormalizer ==
  /\ page = "none"
  /\ npc = "idle"
  /\ path = "none"
  /\ canvas = [width |-> 0, height |-> 0]
  /\ currentQuality = 0
  /\ outDataUrl = 0
  /\ qualities = <<>>
  /\ promise = NotSettled

NotApplied == [k |-> "none"]
NoFunction == fn = "none" /\ arg = Undef /\ out = NotApplied

Pending == [k |-> "pending"]
NoResponse == [status |-> 0, body |-> Undef]

\* no request has been received
NoRequest ==
  /\ route = "none"
  /\ pc = "idle"
  /\ body = Undef
  /\ text = Undef
  /\ parsed = Undef
  /\ calls = <<>>
  /\ resp = NoResponse
  /\ served = 0

Init == NoRequest /\ NoFunction /\ NoNormalizer /\ NoPage

\* the exception an outcome carries into the outer catch
ThrownBy(outcome) == IF outcome.k = "throw" THEN outcome.e ELSE NonError

\* a request can be received when none is being handled
Accepting == pc \in {"idle", "done"} /\ served < MaxRequests

\* POST is entered with a raw body; it runs to its first await or response;
\* caught is the response of the outer catch for the exception outcome throws
Receive(r, raw, outcome, caught) ==
  /\ served' = served + 1
  /\ route' = r
  /\ body' = raw
  /\ text' = Undef
  /\ parsed' = Undef
  /\ UNCHANGED offServer
  /\ CASE outcome.k = "call" ->
            /\ calls' = <<[strict |-> outcome.strict, reply |-> Pending]>>
            /\ pc' = "lenient"
            /\ resp' = NoResponse
       [] outcome.k = "resp" ->
            /\ calls' = <<>>
            /\ pc' = "done"
            /\ resp' = outcome.r
       [] outcome.k = "throw" ->
            /\ calls' = <<>>
            /\ pc' = "done"
            /\ resp' = caught

\* route r is suspended at the await of its lenient or strict call
Awaiting(r, at) == route = r /\ pc = at

\* the awaited upstream call settles with reply and the handler resumes
Settles(reply, outcome, caught) ==
  /\ text' = outcome.text
  /\ parsed' = outcome.parsed
  /\ UNCHANGED <<route, body, served>>
  /\ UNCHANGED offServer
  /\ LET settled == [calls EXCEPT ![Len(calls)].reply = reply] IN
     CASE outcome.k = "call" ->
            /\ calls' = Append(settled, [strict |-> outcome.strict, reply |-> Pending])
            /\ pc' = "strict"
            /\ resp' = NoResponse
       [] outcome.k = "resp" ->
            /\ calls' = settled
            /\ pc' = "done"
            /\ resp' = outcome.r
       [] outcome.k = "throw" ->
            /\ calls' = settled
            /\ pc' = "done"
            /\ resp' = caught

titleReceive ==
  /\ Accepting
  /\ \E raw \in RequestBodies : Receive("title", raw, titleCheck(raw), titleCatch(ThrownBy(titleCheck(raw))))
titleLenientSettles ==
  /\ Awaiting("title", "lenient")
  /\ \E reply \in Replies(route) : Settles(reply, titleAfterLenient(reply), titleCatch(ThrownBy(titleAfterLenient(reply))))
titleStrictSettles ==
  /\ Awaiting("title", "strict")
  /\ \E reply \in Replies(route) : Settles(reply, titleAfterStrict(reply, text, parsed), titleCatch(ThrownBy(titleAfterStrict(reply, text, parsed))))

critiqueReceive ==
  /\ Accepting
  /\ \E raw \in RequestBodies : Receive("critique", raw, critiqueCheck(raw), plainCatch(ThrownBy(critiqueCheck(raw))))
critiqueLenientSettles ==
  /\ Awaiting("critique", "lenient")
  /\ \E reply \in Replies(route) : Settles(reply, critiqueAfterLenient(reply), plainCatch(ThrownBy(critiqueAfterLenient(reply))))
critiqueStrictSettles ==
  /\ Awaiting("critique", "strict")
  /\ \E reply \in Replies(route) : Settles(reply, critiqueAfterStrict(reply, text, parsed), plainCatch(ThrownBy(critiqueAfterStrict(reply, text, parsed))))

seriesReceive ==
  /\ Accepting
  /\ \E raw \in RequestBodies : Receive("series", raw, seriesCheck(raw), plainCatch(ThrownBy(seriesCheck(raw))))
seriesLenientSettles ==
  /\ Awaiting("series", "lenient")
  /\ \E reply \in Replies(route) : Settles(reply, seriesAfterLenient(reply), plainCatch(ThrownBy(seriesAfterLenient(reply))))
seriesStrictSettles ==
  /\ Awaiting("series", "strict")
  /\ \E reply \in Replies(route) : Settles(reply, seriesAfterStrict(reply, text, parsed), plainCatch(ThrownBy(seriesAfterStrict(reply, text, parsed))))

whoReceive ==
  /\ Accepting
  /\ \E raw \in RequestBodies : Receive("who", raw, whoCheck(raw), plainCatch(ThrownBy(whoCheck(raw))))
whoLenientSettles ==
  /\ Awaiting("who", "lenient")
  /\ \E reply \in Replies(route) : Settles(reply, whoAfterLenient(reply), plainCatch(ThrownBy(whoAfterLenient(reply))))
whoStrictSettles ==
  /\ Awaiting("who", "strict")
  /\ \E reply \in Replies(route) : Settles(reply, whoAfterStrict(reply, text, parsed), plainCatch(ThrownBy(whoAfterStrict(reply, text, parsed))))

abstractifyReceive ==
  /\ Accepting
  /\ \E raw \in RequestBodies : Receive("abstractify", raw, abstractifyCheck(raw), plainCatch(ThrownBy(abstractifyCheck(raw))))
abstractifyLenientSettles ==
  /\ Awaiting("abstractify", "lenient")
  /\ \E reply \in Replies(route) : Settles(reply, abstractifyAfterLenient(reply), plainCatch(ThrownBy(abstractifyAfterLenient(reply))))
abstractifyStrictSettles ==
  /\ Awaiting("abstractify", "strict")
  /\ \E reply \in Replies(route) : Settles(reply, abstractifyAfterStrict(reply, text, parsed), plainCatch(ThrownBy(abstractifyAfterStrict(reply, text, parsed))))

statementReceive ==
  /\ Accepting
  /\ \E raw \in RequestBodies : Receive("statement", raw, statementCheck(raw), plainCatch(ThrownBy(statementCheck(raw))))
statementSettles ==
  /\ Awaiting("statement", "lenient")
  /\ \E reply \in Replies(route) : Settles(reply, statementAfterCall(reply), plainCatch(ThrownBy(statementAfterCall(reply))))

Next ==
  \/ titleReceive \/ titleLenientSettles \/ titleStrictSettles
  \/ critiqueReceive \/ critiqueLenientSettles \/ critiqueStrictSettles
  \/ seriesReceive \/ seriesLenientSettles \/ seriesStrictSettles
  \/ whoReceive \/ whoLenientSettles \/ whoStrictSettles
  \/ abstractifyReceive \/ abstractifyLenientSettles \/ abstractifyStrictSettles
  \/ statementReceive \/ statementSettles

Spec == Init /\ [][Next]_vars

(***************************************************************************)
(* The validators applied to candidates: values that conform, values with  *)
(* another cardinality, another length, a field of another type or an      *)
(* extra field, and values that are not objects at all.                    *)
(***************************************************************************)
MaxItems == 7
MaxLevel == 6

\* v with field k set to x; the item i of its array k set to x; the field n
\* of that item set to x
SetField(v, k, x) == JObj([n \in DOMAIN v.f \cup {k} |-> IF n = k THEN x ELSE v.f[n]])
SetItem(v, k, i, x) == SetField(v, k, JArr([j \in 1..Len(v.f[k].items) |-> IF j = i THEN x ELSE v.f[k].items[j]]))
SetItemField(v, k, i, n, x) == SetItem(v, k, i, SetField(v.f[k].items[i], n, x))

WrongField(v, k, W) == {SetField(v, k, x) : x \in W}
WrongItem(v, k, W) == {SetItem(v, k, i, x) : i \in 1..Len(v.f[k].items), x \in W}
WrongItemField(v, k, n, W) == {SetItemField(v, k, i, n, x) : i \in 1..Len(v.f[k].items), x \in W}

\* JSON values of another type than the one a field is declared with
NotAString == {JNum(1), JNull, JBool(TRUE), JArr(<<>>), JObj(<<>>)}
NotAnArray == {JNull, JNum(5), Str("a, b, c"), JObj([length |-> JNum(1)])}
NotAnObject == {JNull, JNum(1), Str("x"), JBool(FALSE), JArr(<<Str("soft")>>)}
NotALevel == {Str("1"), JNull, JBool(TRUE), JArr(<<JNum(1)>>)}

\* what JSON.parse may return that is no object with fields, and undefined
Primitives ==
  {Undef, JNull, JBool(TRUE), JBool(FALSE), JNum(0), JNum(7), Str(""), Str("text"), JArr(<<>>), JObj(<<>>)}

Validators ==
  {"isTitleResult", "isCritiqueResult", "isSeriesResult", "isWhoResult", "isAbstractifyResult", "isStatementResult"}

Validate(f, v) ==
  CASE f = "isTitleResult" -> isTitleResult(v)
    [] f = "isCritiqueResult" -> isCritiqueResult(v)
    [] f = "isSeriesResult" -> isSeriesResult(v)
    [] f = "isWhoResult" -> isWhoResult(v)
    [] f = "isAbstractifyResult" -> isAbstractifyResult(v)
    [] f = "isStatementResult" -> isStatementResult(v)

Prompts == JObj([surface |-> Txt("paper", 5), try |-> Txt("squint", 6)])

\* a conforming candidate and a near miss of each validator
Conforming(f) ==
  CASE f = "isTitleResult" -> titleCandidate(Str("poetic"), 12, 3, 5)
    [] f = "isCritiqueResult" -> critiqueValue(51, 3)
    [] f = "isSeriesResult" -> seriesValue(51, 5)
    [] f = "isWhoResult" -> whoValue(4, 3)
    [] f = "isAbstractifyResult" ->
         SetItemField(abstractifyValue(<<2, 1, 3, 5, 4>>, 21), "paths", 2, "prompts", Prompts)
    [] f = "isStatementResult" -> statementValue(21, JArr(Rep(3, Txt("Read", 30))))

NearMiss(f) ==
  CASE f = "isTitleResult" -> titleCandidate(JNum(7), 12, 3, 5)
    [] f = "isCritiqueResult" -> critiqueValue(51, 2)
    [] f = "isSeriesResult" -> seriesValue(51, 4)
    [] f = "isWhoResult" -> whoValue(3, 3)
    [] f = "isAbstractifyResult" -> abstractifyValue(<<1, 2, 3, 4, 4>>, 21)
    [] f = "isStatementResult" -> statementValue(20, JArr(<<>>))

\* the conforming candidate with one checked field given another type
WrongTyped(f) ==
  LET b == Conforming(f) IN
  CASE f = "isTitleResult" ->
         WrongField(b, "tone", NotAString)
         \cup WrongField(b, "titles", NotAnArray) \cup WrongItem(b, "titles", NotAString)
         \cup WrongField(b, "top_rationales", NotAnArray) \cup WrongItem(b, "top_rationales", NotAnObject)
         \cup WrongItemField(b, "top_rationales", "title", NotAString)
         \cup WrongItemField(b, "top_rationales", "why_it_fits", NotAString)
         \cup WrongField(b, "tags", NotAnArray) \cup WrongItem(b, "tags", NotAString)
    [] f = "isCritiqueResult" ->
         WrongField(b, "opening", NotAString) \cup WrongField(b, "closing", NotAString)
         \cup WrongField(b, "suggestions", NotAnArray) \cup WrongItem(b, "suggestions", NotAString)
    [] f = "isSeriesResult" ->
         WrongField(b, "opening", NotAString) \cup WrongField(b, "closing", NotAString)
         \cup WrongField(b, "ideas", NotAnArray) \cup WrongItem(b, "ideas", NotAnObject)
         \cup WrongItemField(b, "ideas", "title", NotAString)
         \cup WrongItemField(b, "ideas", "description", NotAString)
         \cup WrongItemField(b, "ideas", "practical_note", NotAString)
    [] f = "isWhoResult" ->
         WrongField(b, "artists", NotAnArray) \cup WrongItem(b, "artists", NotAnObject)
         \cup WrongItemField(b, "artists", "name", NotAString)
         \cup WrongItemField(b, "artists", "visual_connection", NotAString)
         \cup WrongItemField(b, "artists", "suggestion", NotAString)
    [] f = "isAbstractifyResult" ->
         WrongField(b, "brief_read", NotAString) \cup WrongField(b, "closing_line", NotAString)
         \cup WrongField(b, "paths", NotAnArray) \cup WrongItem(b, "paths", NotAnObject)
         \cup WrongItemField(b, "paths", "level", NotALevel)
         \cup WrongItemField(b, "paths", "label", NotAString)
         \cup WrongItemField(b, "paths", "what_to_do", NotAString)
         \cup WrongItemField(b, "paths", "why_interesting", NotAString)
         \cup WrongItemField(b, "paths", "prompts", NotAnObject)
         \cup {SetItemField(b, "paths", i, "prompts", SetField(Prompts, "surface", x)) : i \in 1..5, x \in NotAString}
    [] f = "isStatementResult" ->
         WrongField(b, "statement", NotAString) \cup WrongField(b, "bio", NotAString)
         \cup WrongField(b, "tips", NotAnArray) \cup WrongItem(b, "tips", NotAString)

\* the name of the array field of each candidate
ArrayField(f) ==
  CASE f = "isTitleResult" -> "top_rationales"
    [] f = "isCritiqueResult" -> "suggestions"
    [] f = "isSeriesResult" -> "ideas"
    [] f = "isWhoResult" -> "artists"
    [] f = "isAbstractifyResult" -> "paths"
    [] f = "isStatementResult" -> "tips"

\* v with a field no schema names: beside its own fields, inside the
\* objects of its array, and inside the prompts of an abstraction path
ExtraValues == {Str("kept"), JNum(3), JNull}

WithExtra(f, v) ==
  {SetField(v, "notes", x) : x \in ExtraValues}
  \cup (IF f \in {"isCritiqueResult", "isStatementResult"} THEN {}
        ELSE {SetItemField(v, ArrayField(f), i, "notes", x) :
                i \in 1..Len(v.f[ArrayField(f)].items), x \in ExtraValues})
  \cup (IF f # "isAbstractifyResult" THEN {}
        ELSE {SetItemField(v, "paths", 2, "prompts", SetField(Prompts, "notes", x)) : x \in ExtraValues})

\* candidates that differ in the length of an array or of a string
Shapes(f) ==
  CASE f = "isTitleResult" ->
         {titleCandidate(Str("poetic"), nt, nr, ng) : nt \in {0, 11, 12, 13}, nr \in {0, 2, 3, 4}, ng \in {0, 4, 5, 7, 8}}
    [] f = "isCritiqueResult" ->
         {critiqueValue(no, n) : no \in {49, 50, 51}, n \in 0..MaxItems}
    [] f = "isSeriesResult" ->
         {seriesValue(no, n) : no \in {49, 50, 51}, n \in 0..MaxItems}
    [] f = "isWhoResult" ->
         {whoValue(n, nn) : n \in 0..MaxItems, nn \in {2, 3}}
    [] f = "isAbstractifyResult" ->
         {abstractifyValue(levels, 21) : levels \in [1..5 -> 0..MaxLevel]}
         \cup {abstractifyValue([i \in 1..n |-> ((i - 1) % 5) + 1], 21) : n \in 0..MaxItems}
    [] f = "isStatementResult" ->
         {statementValue(n, JArr(Rep(k, Txt("Read", 30)))) : n \in {20, 21}, k \in 0..MaxItems}

Candidates(f) ==
  Primitives \cup Shapes(f) \cup WrongTyped(f) \cup {Conforming(f), NearMiss(f)}
  \cup WithExtra(f, Conforming(f)) \cup WithExtra(f, NearMiss(f))

Returns(v) == [k |-> "value", v |-> v]

\* a validator is chosen and given a candidate
ValidatorInit ==
  /\ NoRequest /\ NoNormalizer /\ NoPage
  /\ fn \in Validators
  /\ arg \in Candidates(fn)
  /\ out = NotApplied

Applies(f) == fn = f /\ out = NotApplied

Applied(value) ==
  /\ out' = Returns(value)
  /\ UNCHANGED <<fn, arg>>
  /\ UNCHANGED <<route, pc, body, text, parsed, calls, resp, served>>
  /\ UNCHANGED clientVars
  /\ UNCHANGED pageVars

isTitleResultApplied == Applies("isTitleResult") /\ Applied(isTitleResult(arg))
isCritiqueResultApplied == Applies("isCritiqueResult") /\ Applied(isCritiqueResult(arg))
isSeriesResultApplied == Applies("isSeriesResult") /\ Applied(isSeriesResult(arg))
isWhoResultApplied == Applies("isWhoResult") /\ Applied(isWhoResult(arg))
isAbstractifyResultApplied == Applies("isAbstractifyResult") /\ Applied(isAbstractifyResult(arg))
isStatementResultApplied == Applies("isStatementResult") /\ Applied(isStatementResult(arg))

ValidatorNext ==
  \/ isTitleResultApplied
  \/ isCritiqueResultApplied
  \/ isSeriesResultApplied
  \/ isWhoResultApplied
  \/ isAbstractifyResultApplied
  \/ isStatementResultApplied

ValidatorSpec == ValidatorInit /\ [][ValidatorNext]_vars

(***************************************************************************)
(* scaleToFit, in its two versions.  The scale is a quotient of integers   *)
(* and is kept as an exact fraction.  The code computes it as a double: a  *)
(* quotient is exact when its reduced denominator is a power of two; when  *)
(* it is not, a product x * scale whose exact value is a half k + 1/2 may  *)
(* come out just below the half (47 * (3 / 94) = 1.4999999999999998) and   *)
(* Math.round then gives k, not k + 1.  halfUp says which; every other     *)
(* product is too far from a half for the error to matter.                 *)
(***************************************************************************)
MaxDim == 12
MaxEdgeTried == 8

Max(a, b) == IF a > b THEN a ELSE b
Abs(a) == IF a < 0 THEN -a ELSE a

RECURSIVE GCD(_, _)
GCD(a, b) == IF b = 0 THEN a ELSE GCD(b, a % b)

RECURSIVE IsPowerOfTwo(_)
IsPowerOfTwo(n) == IF n = 1 THEN TRUE ELSE IF n % 2 = 1 THEN FALSE ELSE IsPowerOfTwo(n \div 2)

\* n / d
Frac(n, d) == [n |-> n, d |-> d]


\* Math.min that returns its first argument
MinFrac_first(a, b) == a

\* Math.min(a, b)
MinFrac(a, b) == IF a.n * b.d <= b.n * a.d THEN a ELSE b

\* the double n / d is the exact quotient
ExactDouble(q) == IsPowerOfTwo(q.d \div GCD(q.n, q.d))

\* Math.round(x * scale)
Round(x, scale, halfUp) ==
  LET num == x * scale.n
      q == num \div scale.d
      r == num % scale.d
  IN IF 2 * r > scale.d THEN q + 1
     ELSE IF 2 * r < scale.d THEN q
     ELSE IF ExactDouble(scale) \/ halfUp THEN q + 1
     ELSE q


\* scaleToFit that fits each axis on its own
scaleToFit_perAxis(w, h, maxEdge, halfUp) ==
  IF w <= maxEdge /\ h <= maxEdge THEN [width |-> w, height |-> h]
  ELSE [width |-> Round(w, MinFrac(Frac(1, 1), Frac(maxEdge, w)), halfUp),
        height |-> Round(h, MinFrac(Frac(1, 1), Frac(maxEdge, h)), halfUp)]

\* scaleToFit of the series, critique and who pages
scaleToFit(w, h, maxEdge, halfUp) ==
  IF w <= maxEdge /\ h <= maxEdge THEN [width |-> w, height |-> h]
  ELSE LET scale == MinFrac(Frac(maxEdge, w), Frac(maxEdge, h))
       IN [width |-> Round(w, scale, halfUp), height |-> Round(h, scale, halfUp)]


\* abstractifyScaleToFit without the cap of the scale at 1
abstractifyScaleToFit_noCap(w, h, maxEdge, halfUp) ==
  LET scale == Frac(maxEdge, Max(w, h))
  IN [width |-> Round(w, scale, halfUp), height |-> Round(h, scale, halfUp)]

\* scaleToFit of the abstractify page
abstractifyScaleToFit(w, h, maxEdge, halfUp) ==
  LET scale == MinFrac(Frac(1, 1), Frac(maxEdge, Max(w, h)))
  IN [width |-> Round(w, scale, halfUp), height |-> Round(h, scale, halfUp)]

ScaleFunctions == {"scaleToFit", "abstractifyScaleToFit"}

ScaleBy(f, w, h, maxEdge, halfUp) ==
  CASE f = "scaleToFit" -> scaleToFit(w, h, maxEdge, halfUp)
    [] f = "abstractifyScaleToFit" -> abstractifyScaleToFit(w, h, maxEdge, halfUp)

Dims(w, h, maxEdge, halfUp) == [w |-> w, h |-> h, maxEdge |-> maxEdge, halfUp |-> halfUp]

\* every size up to MaxDim against every edge up to MaxEdgeTried, and
\* photographs against the edges the pages pass
ScaleInputs ==
  {Dims(w, h, e, up) : w \in 1..MaxDim, h \in 1..MaxDim, e \in 1..MaxEdgeTried, up \in BOOLEAN}
  \cup {Dims(d[1], d[2], e, up) :
          d \in {<<4032, 3024>>, <<3024, 4032>>, <<1200, 1800>>, <<1801, 1800>>, <<640, 480>>, <<1, 5000>>},
          e \in {1200, 1800}, up \in BOOLEAN}
  \cup {Dims(47, 94, 3, up) : up \in BOOLEAN}

ScaleInit ==
  /\ NoRequest /\ NoNormalizer /\ NoPage
  /\ fn \in ScaleFunctions
  /\ arg \in ScaleInputs
  /\ out = NotApplied

scaleToFitApplied ==
  Applies("scaleToFit") /\ Applied(scaleToFit(arg.w, arg.h, arg.maxEdge, arg.halfUp))
abstractifyScaleToFitApplied ==
  Applies("abstractifyScaleToFit") /\ Applied(abstractifyScaleToFit(arg.w, arg.h, arg.maxEdge, arg.halfUp))

ScaleNext ==
  \/ scaleToFitApplied
  \/ abstractifyScaleToFitApplied

ScaleSpec == ScaleInit /\ [][ScaleNext]_vars

(***************************************************************************)
(* resizeAndConvertToJpeg of the series, critique, who and abstractify     *)
(* pages, cut at its awaits and at each turn of the quality loop.  The     *)
(* JPEG encoder is any mapping: each toDataURL call returns a data URL of  *)
(* some length.  Qualities are in hundredths (0.88 is 88); the doubles     *)
(* 0.88 - k * 0.05 and 0.82 - k * 0.05 never come near 0.4 or 0.5.         *)
(***************************************************************************)
NormalizerPages == {"series", "critique", "who", "abstractify"}

\* the options each page passes, and the quality at which its loop stops
Opts(p) ==
  IF p = "abstractify"
  THEN [maxEdge |-> 1800, quality |-> 82, maxBytes |-> 2621440, floor |-> 50]
  ELSE [maxEdge |-> 1200, quality |-> 88, maxBytes |-> 4000000, floor |-> 40]

\* outDataUrl.length > maxBytes; on abstractify dataUrl.length * 0.75 > maxBytes
TooLong(p, len) ==
  IF p = "abstractify" THEN 3 * len > 4 * Opts(p).maxBytes ELSE len > Opts(p).maxBytes

Photos == {<<4032, 3024>>, <<640, 480>>, <<1, 5000>>}
EncodedLengths == {900000, 3495253, 3495254, 4000000, 4000001, 6000000}

Resolved(len) == [k |-> "resolved", len |-> len]
Rejected(message) == [k |-> "rejected", message |-> message]

NormalizerInit == NoRequest /\ NoFunction /\ NoNormalizer /\ NoPage

\* what a step of the normalizer leaves alone
offClient == <<route, pc, body, text, parsed, calls, resp, served, fn, arg, out, pageVars>>

\* resizeAndConvertToJpeg(file, opts) is called and starts the FileReader
resizeAndConvertToJpeg ==
  /\ npc = "idle"
  /\ page' \in NormalizerPages
  /\ npc' = "reading"
  /\ UNCHANGED <<path, canvas, currentQuality, outDataUrl, qualities, promise>>
  /\ UNCHANGED offClient

Fails(message) ==
  /\ npc' = "failed"
  /\ promise' = Rejected(message)
  /\ UNCHANGED <<page, path, canvas, currentQuality, outDataUrl, qualities>>

\* the HTMLImageElement path is entered
FallsBack ==
  /\ npc' = "loading"
  /\ path' = "image"
  /\ UNCHANGED <<page, canvas, currentQuality, outDataUrl, qualities, promise>>

\* scaleToFit, the canvas, drawImage and the first toDataURL
Draws(dims, halfUp, len) ==
  /\ canvas' = IF page = "abstractify"
               THEN abstractifyScaleToFit(dims[1], dims[2], Opts(page).maxEdge, halfUp)
               ELSE scaleToFit(dims[1], dims[2], Opts(page).maxEdge, halfUp)
  /\ currentQuality' = Opts(page).quality
  /\ outDataUrl' = len
  /\ qualities' = <<Opts(page).quality>>
  /\ npc' = "encoding"
  /\ UNCHANGED <<page, path, promise>>

\* fr.onload / fr.onerror
FileRead ==
  /\ npc = "reading"
  /\ \/ npc' = "decoding" /\ path' = "bitmap"
        /\ UNCHANGED <<page, canvas, currentQuality, outDataUrl, qualities, promise>>
     \/ Fails("Failed to read image")
  /\ UNCHANGED offClient

\* createImageBitmap settles: the bitmap is drawn, or the decoding or
\* getContext fails and the catch falls back to an Image
BitmapDecoded ==
  /\ npc = "decoding"
  /\ \/ \E dims \in Photos, halfUp \in BOOLEAN, len \in EncodedLengths : Draws(dims, halfUp, len)
     \/ FallsBack
  /\ UNCHANGED offClient

\* img.onload / img.onerror of the fallback
ImageLoaded ==
  /\ npc = "loading"
  /\ \/ \E dims \in Photos, halfUp \in BOOLEAN, len \in EncodedLengths : Draws(dims, halfUp, len)
     \/ Fails("Canvas unsupported")
     \/ Fails(IF page = "abstractify" THEN "Invalid image" ELSE "Image load failed")
  /\ UNCHANGED offClient


\* Reencode in steps of 0.1
Reencode_coarser ==
  /\ npc = "encoding"
  /\ TooLong(page, outDataUrl) /\ currentQuality > Opts(page).floor
  /\ currentQuality' = currentQuality - 10
  /\ outDataUrl' \in EncodedLengths
  /\ qualities' = Append(qualities, currentQuality - 10)
  /\ UNCHANGED <<page, npc, path, canvas, promise>>
  /\ UNCHANGED offClient

\* one turn of the while loop
Reencode ==
  /\ npc = "encoding"
  /\ TooLong(page, outDataUrl) /\ currentQuality > Opts(page).floor
  /\ currentQuality' = currentQuality - 5
  /\ outDataUrl' \in EncodedLengths
  /\ qualities' = Append(qualities, currentQuality - 5)
  /\ UNCHANGED <<page, npc, path, canvas, promise>>
  /\ UNCHANGED offClient

\* the loop is left.  compressCanvas throws when the data URL is still too
\* long: inside the try of the bitmap path the catch takes it to the
\* fallback, in the fallback the promise rejects.  The other pages return
\* the data URL as it is.
LoopLeft ==
  /\ npc = "encoding"
  /\ ~(TooLong(page, outDataUrl) /\ currentQuality > Opts(page).floor)
  /\ IF page = "abstractify" /\ TooLong(page, outDataUrl)
     THEN IF path = "bitmap" THEN FallsBack
          ELSE Fails("Image is too large. Try a smaller/cropped photo.")
     ELSE /\ npc' = "returned"
          /\ promise' = Resolved(outDataUrl)
          /\ UNCHANGED <<page, path, canvas, currentQuality, outDataUrl, qualities>>
  /\ UNCHANGED offClient

NormalizerNext ==
  \/ resizeAndConvertToJpeg
  \/ FileRead
  \/ BitmapDecoded
  \/ ImageLoaded
  \/ Reencode
  \/ LoopLeft

NormalizerSpec == NormalizerInit /\ [][NormalizerNext]_vars

(***************************************************************************)
(* PageSpec: one mounted tool page.  The user hands files to the page      *)
(* (file input or drop), clicks Generate and Remove, and the page's        *)
(* pending work (file reads, normalizer promises, fetches) settles in any  *)
(* order.  State is the state of the last render: a handler reads the      *)
(* values its component was rendered with.                                 *)
(***************************************************************************)
MaxSelections == 3
MaxGenerates == 2

\* title/page.tsx; part_002; series/page.tsx, part_003 and part_000
ReaderPages == {"title"}
SeriesPages == {"series", "critique", "who"}
ToolPages == {"title", "abstractify", "series", "critique", "who"}

\* a size limit of 8 MiB
MaxFileSize_eightMiB == 8 * 1024 * 1024

\* file.size > 6 * 1024 * 1024
MaxFileSize == 6 * 1024 * 1024

\* the length of the base64 text of n bytes, padding included
Base64Length(n) == 4 * ((n + 2) \div 3)

\* the length of reader.result after readAsDataURL(file):
\* "data:" type ";base64," and the base64 text of the bytes
DataUrlLength(file) == Len("data:") + Len(file.type) + Len(";base64,") + Base64Length(file.size)

\* file.type.startsWith("image/")
IsImage(file) == StartsWith(Str(file.type), "image/")

Files ==
  { [type |-> "application/pdf", size |-> 20000],
    [type |-> "", size |-> 20000],
    [type |-> "image/png", size |-> 1],
    [type |-> "image/jpeg", size |-> 6291456],
    [type |-> "image/jpeg", size |-> 6291457],
    [type |-> "image/heic", size |-> 7500000],
    [type |-> "image/vnd.adobe.photoshop", size |-> 6291456] }

\* the files a page is given; only the title page looks at the size
FilesOn(t) == IF t \in ReaderPages THEN Files ELSE {f \in Files : f.size # 6291456 /\ f.size # 6291457}

\* how the promise of resizeAndConvertToJpeg settles
ResizeOutcomes(t) ==
  IF t = "abstractify"
  THEN {Resolved(900000), Rejected("Image is too large. Try a smaller/cropped photo.")}
  ELSE {Resolved(900000), Rejected("Failed to read image")}

\* how the fetch and res.json() settle
Json(ok, error) == [k |-> "json", ok |-> ok, error |-> error]
FetchThrew(message) == [k |-> "throw", message |-> message]
FetchOutcomes(t) ==
  IF t \in ToolPages
  THEN { Json(TRUE, ""), Json(TRUE, "Could not read the image"),
         Json(FALSE, "Model returned invalid format"), Json(FALSE, ""),
         FetchThrew("Failed to fetch") }
  ELSE {}

\* new Error(data.error || "Request failed"), or the error fetch threw
MessageOf(o) ==
  IF o.k = "throw" THEN o.message
  ELSE IF o.error # "" THEN o.error ELSE "Request failed"

Data(n) == [k |-> "data", from |-> n]
Held(r) == [n |-> r.n, len |-> r.len]

offPage == <<route, pc, body, text, parsed, calls, resp, served, fn, arg, out, clientVars>>

PageInit ==
  /\ NoRequest /\ NoFunction /\ NoNormalizer
  /\ tool \in ToolPages
  /\ image = NoImage
  /\ loading = FALSE
  /\ banner = ""
  /\ result = NoResult
  /\ described = FALSE
  /\ reading = {}
  /\ inflight = {}
  /\ event = Event("mounted", NoFile, NoOutcome, "")
  /\ selected = 0
  /\ sent = 0

\* title page: onSelectFile(file) up to reader.readAsDataURL(file)
onSelectFile ==
  /\ tool \in ReaderPages
  /\ selected < MaxSelections
  /\ \E file \in FilesOn(tool) :
       /\ event' = Event("selected", file, NoOutcome, "")
       /\ IF ~IsImage(file)
          THEN /\ banner' = "Please choose an image file (JPEG/PNG)."
               /\ UNCHANGED reading
          ELSE IF file.size > MaxFileSize
          THEN /\ banner' = "Image is too large. Please keep it under ~6MB."
               /\ UNCHANGED reading
          ELSE /\ reading' = reading \cup {[n |-> selected + 1, len |-> DataUrlLength(file)]}
               /\ UNCHANGED banner
  /\ selected' = selected + 1
  /\ UNCHANGED <<tool, image, loading, result, described, inflight, sent>>
  /\ UNCHANGED offPage

\* title page: reader.onload
readerOnload ==
  /\ tool \in ReaderPages
  /\ \E r \in reading :
       /\ image' = Held(r)
       /\ reading' = reading \ {r}
  /\ banner' = ""
  /\ result' = NoResult
  /\ event' = Event("loaded", NoFile, NoOutcome, "")
  /\ UNCHANGED <<tool, loading, described, inflight, selected, sent>>
  /\ UNCHANGED offPage

\* abstractify page: onSelectFile(file) up to the await
abstractifyOnSelectFile ==
  /\ tool = "abstractify"
  /\ selected < MaxSelections
  /\ \E file \in FilesOn(tool) :
       /\ event' = Event("selected", file, NoOutcome, "")
       /\ IF ~IsImage(file)
          THEN /\ banner' = "Please choose an image file (JPEG/PNG)."
               /\ UNCHANGED reading
          ELSE /\ reading' = reading \cup {[n |-> selected + 1, len |-> 0]}
               /\ UNCHANGED banner
  /\ selected' = selected + 1
  /\ UNCHANGED <<tool, image, loading, result, described, inflight, sent>>
  /\ UNCHANGED offPage

\* abstractify page: onSelectFile after the await, and its catch
abstractifyResized ==
  /\ tool = "abstractify"
  /\ \E r \in reading, o \in ResizeOutcomes(tool) :
       /\ reading' = reading \ {r}
       /\ event' = Event("resized", NoFile, o, "")
       /\ IF o.k = "resolved"
          THEN /\ image' = [n |-> r.n, len |-> o.len]
               /\ banner' = ""
               /\ result' = NoResult
          ELSE /\ banner' = o.message
               /\ UNCHANGED <<image, result>>
  /\ UNCHANGED <<tool, loading, described, inflight, selected, sent>>
  /\ UNCHANGED offPage

\* processFile with setLoading(true) and setResult(null) ahead of the test
\* of file.type
processFile_clearsFirst ==
  /\ tool \in SeriesPages
  /\ selected < MaxSelections
  /\ \E file \in FilesOn(tool) :
       IF ~IsImage(file)
       THEN /\ event' = Event("selected", file, NoOutcome, "Please select an image file.")
            /\ UNCHANGED reading
       ELSE /\ event' = Event("selected", file, NoOutcome, "")
            /\ reading' = reading \cup {[n |-> selected + 1, len |-> 0]}
  /\ loading' = TRUE
  /\ result' = NoResult
  /\ selected' = selected + 1
  /\ UNCHANGED <<tool, image, banner, described, inflight, sent>>
  /\ UNCHANGED offPage

\* series, critique and who pages: processFile(file) up to the await
processFile ==
  /\ tool \in SeriesPages
  /\ selected < MaxSelections
  /\ \E file \in FilesOn(tool) :
       IF ~IsImage(file)
       THEN /\ event' = Event("selected", file, NoOutcome, "Please select an image file.")
            /\ UNCHANGED <<loading, result, reading>>
       ELSE /\ event' = Event("selected", file, NoOutcome, "")
            /\ loading' = TRUE
            /\ result' = NoResult
            /\ reading' = reading \cup {[n |-> selected + 1, len |-> 0]}
  /\ selected' = selected + 1
  /\ UNCHANGED <<tool, image, banner, described, inflight, sent>>
  /\ UNCHANGED offPage

\* series, critique and who pages: processFile after the await, its catch
\* and its finally
processFileResized ==
  /\ tool \in SeriesPages
  /\ \E r \in reading, o \in ResizeOutcomes(tool) :
       /\ reading' = reading \ {r}
       /\ IF o.k = "resolved"
          THEN /\ image' = [n |-> r.n, len |-> o.len]
               /\ event' = Event("resized", NoFile, o, "")
          ELSE /\ event' = Event("resized", NoFile, o, o.message)
               /\ UNCHANGED image
  /\ loading' = FALSE
  /\ UNCHANGED <<tool, banner, result, described, inflight, selected, sent>>
  /\ UNCHANGED offPage

\* the request a page sends for the image it holds
Request(id) == [id |-> id, from |-> image.n, len |-> image.len]

\* title and abstractify pages: a click on Generate (the button is disabled
\* while loading or without an image), handleGenerate up to the fetch
handleGenerate ==
  /\ tool \in {"title", "abstractify"}
  /\ ~(loading \/ image = NoImage)
  /\ sent < MaxGenerates
  /\ IF image = NoImage
     THEN /\ banner' = "Add an artwork image first."
          /\ UNCHANGED <<loading, result, inflight, sent>>
     ELSE /\ loading' = TRUE
          /\ banner' = ""
          /\ result' = NoResult
          /\ inflight' = inflight \cup {Request(sent + 1)}
          /\ sent' = sent + 1
  /\ event' = Event("generate", NoFile, NoOutcome, "")
  /\ UNCHANGED <<tool, image, described, reading, selected>>
  /\ UNCHANGED offPage

\* title and abstractify pages: handleGenerate after the fetch
generateSettled ==
  /\ tool \in {"title", "abstractify"}
  /\ \E q \in inflight, o \in FetchOutcomes(tool) :
       /\ inflight' = inflight \ {q}
       /\ event' = Event("settled", NoFile, o, "")
       /\ IF o.k = "json" /\ o.ok
          THEN /\ result' = Data(q.from)
               /\ UNCHANGED banner
          ELSE /\ banner' = MessageOf(o)
               /\ result' = IF tool = "title" THEN NoResult ELSE result
  /\ loading' = FALSE
  /\ UNCHANGED <<tool, image, described, reading, selected, sent>>
  /\ UNCHANGED offPage

\* the who page sends a request for a description without an image
HasInput == image # NoImage \/ (tool = "who" /\ described)

\* series, critique and who pages: a click on Generate, handleGenerate up
\* to the fetch
seriesHandleGenerate ==
  /\ tool \in SeriesPages
  /\ ~(loading \/ ~HasInput)
  /\ sent < MaxGenerates
  /\ IF ~HasInput \/ loading
     THEN UNCHANGED <<loading, result, inflight, sent>>
     ELSE /\ loading' = TRUE
          /\ result' = NoResult
          /\ inflight' = inflight \cup {Request(sent + 1)}
          /\ sent' = sent + 1
  /\ event' = Event("generate", NoFile, NoOutcome, "")
  /\ UNCHANGED <<tool, image, banner, described, reading, selected>>
  /\ UNCHANGED offPage

\* series, critique and who pages: handleGenerate after the fetch
seriesGenerateSettled ==
  /\ tool \in SeriesPages
  /\ \E q \in inflight, o \in FetchOutcomes(tool) :
       /\ inflight' = inflight \ {q}
       /\ IF o.k = "json" /\ o.ok /\ o.error = ""
          THEN /\ result' = Data(q.from)
               /\ event' = Event("settled", NoFile, o, "")
          ELSE /\ event' = Event("settled", NoFile, o, MessageOf(o))
               /\ UNCHANGED result
  /\ loading' = FALSE
  /\ UNCHANGED <<tool, image, banner, described, reading, selected, sent>>
  /\ UNCHANGED offPage

\* a click on Remove, shown while an image is held
removeImage ==
  /\ tool \in ToolPages
  /\ image # NoImage
  /\ image' = NoImage
  /\ result' = NoResult
  /\ event' = Event("removed", NoFile, NoOutcome, "")
  /\ UNCHANGED <<tool, loading, banner, described, reading, inflight, selected, sent>>
  /\ UNCHANGED offPage

\* who page: the description is typed or cleared
setDescription ==
  /\ tool = "who"
  /\ described' = ~described
  /\ event' = Event("described", NoFile, NoOutcome, "")
  /\ UNCHANGED <<tool, image, loading, banner, result, reading, inflight, selected, sent>>
  /\ UNCHANGED offPage

PageNext ==
  \/ onSelectFile
  \/ readerOnload
  \/ abstractifyOnSelectFile
  \/ abstractifyResized
  \/ processFile
  \/ processFileResized
  \/ handleGenerate
  \/ generateSettled
  \/ seriesHandleGenerate
  \/ seriesGenerateSettled
  \/ removeImage
  \/ setDescription

PageSpec == PageInit /\ [][PageNext]_vars

(***************************************************************************)
(* Vocabulary of the properties.                                           *)
(***************************************************************************)
\* the validator of route r
Accepts(r, v) ==
  CASE r = "title" -> isTitleResult(v)
    [] r = "critique" -> isCritiqueResult(v)
    [] r = "series" -> isSeriesResult(v)
    [] r = "who" -> isWhoResult(v)
    [] r = "abstractify" -> isAbstractifyResult(v)
    [] r = "statement" -> isStatementResult(v)
    [] OTHER -> FALSE

Returned(i) == calls[i].reply.k = "completion"
TextOf(i) == ContentOrEmpty(calls[i].reply)
\* call i returned a text that parses to a value the route's validator accepts
Conforms(i) == Returned(i) /\ TextOf(i).json # SyntaxError /\ Accepts(route, TextOf(i).json)
Failed(i) == Returned(i) /\ ~Conforms(i)
InFlight == {i \in 1..Len(calls) : calls[i].reply = Pending}
Last == Len(calls)
Answered == pc = "done"

\* C1: no request makes more than two upstream generation calls, whatever
\* the generator returns.
C1_AtMostTwoCalls == Len(calls) <= 2

C1_Witness ==
  /\ Answered /\ Len(calls) = 2
  /\ Failed(1) /\ Failed(2)
  /\ resp.status = 502

\* C2: the first call is lenient; a strict call exists only as the second
\* call, after the lenient call returned a text that did not conform; at
\* most one call is in flight.
C2_LenientThenStrict ==
  /\ Len(calls) >= 1 => ~calls[1].strict
  /\ \A i \in 2..Len(calls) : calls[i].strict /\ Failed(i - 1)
  /\ \A i \in 1..Len(calls) : calls[i].strict => i = 2
  /\ Cardinality(InFlight) <= 1

C2_Witness ==
  /\ pc = "strict" /\ Len(calls) = 2
  /\ calls[2].strict /\ calls[2].reply = Pending
  /\ Failed(1)

\* C3: when the text of the attempt that ends the protocol parses to a
\* value the validator accepts, the response is 200 with exactly that
\* value; after a lenient failure it is the strict attempt's value and two
\* calls were made.
C3_Accepted ==
  (Answered /\ Len(calls) >= 1 /\ Conforms(Last)) =>
     /\ resp = Response(200, TextOf(Last).json)
     /\ (Failed(1) => Len(calls) = 2 /\ calls[2].strict /\ resp.body = TextOf(2).json)

C3_Witness ==
  /\ Answered /\ Len(calls) = 2
  /\ Failed(1) /\ Conforms(2)
  /\ resp.status = 200

\* C4: when no attempt conforms, the response is 502 and its debug field
\* is the first 4000 characters of the text of the last call made.
C4_DebugIsLastText4000 ==
  (Answered /\ Len(calls) >= 1 /\ \A i \in 1..Len(calls) : Failed(i)) =>
     /\ resp.status = 502
     /\ Get(resp.body, "debug") = Slice(TextOf(Last), 4000)

\* C5: a 502 is never sent after a single upstream call: the strict call
\* was made first.
C5_RetryBefore502 ==
  (Answered /\ resp.status = 502) =>
     /\ Len(calls) = 2
     /\ ~calls[1].strict /\ calls[2].strict

\* C6: a 200 response carries a body the validator accepts, and that body
\* is the parse of the text of the last call made.
C6_NoPartialResults ==
  resp.status = 200 =>
     /\ Accepts(route, resp.body)
     /\ Len(calls) >= 1 /\ Returned(Last)
     /\ TextOf(Last).json # SyntaxError
     /\ resp.body = TextOf(Last).json

C6_Witness ==
  /\ Answered /\ resp.status = 200 /\ Len(calls) = 2
  /\ TextOf(1).json # SyntaxError /\ Failed(1)

\* C7: every response other than 200 is 400, 502 or 500 with a string
\* field error; a 502 also has a string field debug of at most 4000
\* characters.
C7_ErrorShape ==
  (Answered /\ resp.status # 200) =>
     /\ resp.status \in {400, 500, 502}
     /\ TypeOf(Get(resp.body, "error")) = "string"
     /\ resp.status = 502 =>
          /\ TypeOf(Get(resp.body, "debug")) = "string"
          /\ Get(resp.body, "debug").len <= 4000

C7_Witness ==
  /\ Answered /\ resp.status = 502
  /\ TextOf(Last).len > 4000
  /\ Get(resp.body, "debug").len = 4000

\* C8: when an upstream call throws, it is the last call of the request,
\* and the response is 500 with a body {error: message} made from the
\* exception; it is neither 200 nor 502.
C8_ThrowGives500 ==
  \A i \in 1..Len(calls) :
     calls[i].reply.k = "throw" =>
        /\ i = Last
        /\ Answered
        /\ resp.status = 500
        /\ resp.body.t = "obj" /\ DOMAIN resp.body.f = {"error"}
        /\ TypeOf(resp.body.f.error) = "string"
        /\ calls[i].reply.e.isError => Includes(resp.body.f.error.s, calls[i].reply.e.message)

C8_Witness ==
  /\ Answered /\ Len(calls) = 2
  /\ Failed(1) /\ calls[2].reply.k = "throw"
  /\ resp.status = 500

\* C9: a request whose body is not well-formed JSON is answered 400 and
\* no upstream call is made.
C9_MalformedGives400 ==
  (Answered /\ body = Malformed) => (resp.status = 400 /\ calls = <<>>)

\* C10: on title, critique, series and abstractify a request whose
\* imageDataUrl is absent or does not begin with "data:image/" is answered
\* 400 with an error body and no upstream call; on who the same holds for a
\* present imageDataUrl without that prefix.
LacksPrefix(v) == ~(v.t = "str" /\ StartsWith(v, "data:image/"))

C10_BadImageGives400 ==
  LET img == Get(body, "imageDataUrl")
      rejected == /\ resp.status = 400
                  /\ TypeOf(Get(resp.body, "error")) = "string"
                  /\ calls = <<>>
  IN (Answered /\ body # Malformed) =>
       /\ (route \in {"title", "critique", "series", "abstractify"} /\ LacksPrefix(img)) => rejected
       /\ (route = "who" /\ Truthy(img) /\ LacksPrefix(img)) => rejected

\* C11: on every route that takes an image (title, critique, series, who,
\* abstractify), a request whose imageDataUrl is a data:image/ string of
\* more than 10,000,000 characters is answered 400 with an error that
\* begins "Image too large", and no upstream call is made.
C11_OversizedGives400 ==
  LET img == Get(body, "imageDataUrl")
      oversized == /\ img.t = "str"
                   /\ StartsWith(img, "data:image/")
                   /\ img.len > 10000000
  IN (route \in {"title", "critique", "series", "who", "abstractify"} /\ pc # "idle" /\ oversized) =>
       /\ Answered
       /\ resp.status = 400
       /\ TypeOf(Get(resp.body, "error")) = "string"
       /\ StartsWith(Get(resp.body, "error"), "Image too large")
       /\ calls = <<>>

\* v is an absent description or one of white space only
BlankOrAbsent(v) ==
  \/ v = Undef
  \/ v.t = "str" /\ \A i \in 1..Len(v.s) : SubSeq(v.s, i, i) \in {" ", "\t", "\n", "\r"}

Entries(v, k) == IF Get(v, k).t = "arr" THEN Len(Get(v, k).items) ELSE -1

\* v has five paths that are objects with a number as level; their levels
HasFiveLevels(v) ==
  /\ Entries(v, "paths") = 5
  /\ \A i \in 1..5 : Get(Get(v, "paths").items[i], "level").t = "num"

LevelsOf(v) == [i \in 1..5 |-> Get(Get(v, "paths").items[i], "level").n]

EachOfOneToFiveOnce(l) ==
  /\ {l[i] : i \in 1..5} = 1..5
  /\ \A i, j \in 1..5 : i # j => l[i] # l[j]

\* C13: the abstractify validator accepts a candidate only if the levels of
\* its 5 paths are 1, 2, 3, 4, 5, each once, in any order; when every other
\* field is valid it accepts every such candidate and rejects every other
\* choice of five levels, {1,2,3,4,4} among them.
C13_CoveringSet ==
  (fn = "isAbstractifyResult" /\ out # NotApplied) =>
     /\ out.v => (HasFiveLevels(arg) /\ EachOfOneToFiveOnce(LevelsOf(arg)))
     /\ (HasFiveLevels(arg) /\ arg = abstractifyValue(LevelsOf(arg), 21)) =>
           (out.v <=> EachOfOneToFiveOnce(LevelsOf(arg)))

C13_Witness ==
  /\ fn = "isAbstractifyResult"
  /\ arg = abstractifyValue(<<1, 2, 3, 4, 4>>, 21)
  /\ out = Returns(FALSE)

\* C14: a title response with status 200 carries exactly 12 titles, exactly
\* 3 top_rationales and between 5 and 7 tags, all titles and tags strings.
C14_TitleCardinalities ==
  (route = "title" /\ resp.status = 200) =>
     LET titles == Get(resp.body, "titles")
         tags == Get(resp.body, "tags")
     IN /\ Entries(resp.body, "titles") = 12
        /\ Entries(resp.body, "top_rationales") = 3
        /\ Entries(resp.body, "tags") \in 5..7
        /\ \A i \in 1..Len(titles.items) : titles.items[i].t = "str"
        /\ \A i \in 1..Len(tags.items) : tags.items[i].t = "str"

\* C15: isSeriesResult accepts only candidates with exactly 5 ideas,
\* isCritiqueResult only with 3 to 5 suggestions, isWhoResult only with 4 or
\* 5 artists; a candidate whose other fields are valid is accepted exactly
\* when its array has such a length.
C15_CardinalityGate ==
  out # NotApplied =>
     /\ fn = "isSeriesResult" =>
           /\ out.v => Entries(arg, "ideas") = 5
           /\ \A n \in 0..MaxItems : arg = seriesValue(51, n) => (out.v <=> n = 5)
     /\ fn = "isCritiqueResult" =>
           /\ out.v => Entries(arg, "suggestions") \in 3..5
           /\ \A n \in 0..MaxItems : arg = critiqueValue(51, n) => (out.v <=> n \in 3..5)
     /\ fn = "isWhoResult" =>
           /\ out.v => Entries(arg, "artists") \in 4..5
           /\ \A n \in 0..MaxItems : arg = whoValue(n, 3) => (out.v <=> n \in 4..5)

C15_Witness ==
  /\ fn = "isCritiqueResult"
  /\ arg = critiqueValue(51, 6)
  /\ out = Returns(FALSE)

\* C16: every validator returns a boolean for every JSON value; it returns
\* false for null, the primitives and every candidate in which one checked
\* field has another type than declared, and true for an accepted candidate
\* to which a field that no schema names was added.
C16_NoCoercion ==
  (fn \in Validators /\ out # NotApplied) =>
     /\ out.v \in BOOLEAN
     /\ arg \in Primitives => out.v = FALSE
     /\ arg \in WrongTyped(fn) => out.v = FALSE
     /\ arg \in WithExtra(fn, Conforming(fn)) => out.v = TRUE

\* C17: an otherwise valid series or critique candidate is accepted when
\* its opening has exactly 50 characters and rejected when it has 49.
C17_OpeningOfFifty ==
  out # NotApplied =>
     /\ (fn = "isSeriesResult" /\ arg = seriesValue(50, 5)) => out.v = TRUE
     /\ (fn = "isSeriesResult" /\ arg = seriesValue(49, 5)) => out.v = FALSE
     /\ (fn = "isCritiqueResult" /\ arg = critiqueValue(50, 3)) => out.v = TRUE
     /\ (fn = "isCritiqueResult" /\ arg = critiqueValue(49, 3)) => out.v = FALSE

\* C19: the width scaleToFit returns is at most min(w, maxEdge) and the
\* height at most min(h, maxEdge); an image with both edges within maxEdge
\* keeps its dimensions; scaleToFit applied to what it returned returns it
\* again.
C19_NeverUpscales ==
  (fn \in ScaleFunctions /\ out # NotApplied) =>
     /\ out.v.width <= Min(arg.w, arg.maxEdge)
     /\ out.v.height <= Min(arg.h, arg.maxEdge)
     /\ (arg.w <= arg.maxEdge /\ arg.h <= arg.maxEdge) => out.v = [width |-> arg.w, height |-> arg.h]
     /\ \A up \in BOOLEAN : ScaleBy(fn, out.v.width, out.v.height, arg.maxEdge, up) = out.v

C19_Witness ==
  /\ fn = "abstractifyScaleToFit"
  /\ arg.w = 4032 /\ arg.h = 3024 /\ arg.maxEdge = 1800
  /\ out = Returns([width |-> 1800, height |-> 1350])

\* C20: when an edge of the image is longer than maxEdge, the longer edge
\* of what scaleToFit returns is maxEdge, and the shorter edge is an integer
\* nearest to shorter * maxEdge / longer (at most half a pixel from it).
C20_AspectPreserved ==
  (fn \in ScaleFunctions /\ out # NotApplied /\ (arg.w > arg.maxEdge \/ arg.h > arg.maxEdge)) =>
     LET longer == Max(arg.w, arg.h)
         shorter == Min(arg.w, arg.h)
         outLonger == IF arg.w >= arg.h THEN out.v.width ELSE out.v.height
         outShorter == IF arg.w >= arg.h THEN out.v.height ELSE out.v.width
     IN /\ outLonger = arg.maxEdge
        /\ 2 * Abs(outShorter * longer - shorter * arg.maxEdge) <= longer

C20_Witness ==
  /\ fn = "scaleToFit"
  /\ arg = Dims(47, 94, 3, FALSE)
  /\ out = Returns([width |-> 1, height |-> 3])

\* C18: on the series, critique, who and abstractify pages, a data URL that
\* resizeAndConvertToJpeg returns is within maxBytes by the page's own
\* measure; when it cannot be brought within maxBytes the operation fails.
C18_WithinMaxBytesOrFails ==
  npc = "returned" =>
     /\ promise.k = "resolved"
     /\ ~TooLong(page, promise.len)

\* C21: the quality loop makes a bounded number of toDataURL calls; the
\* qualities it uses start at the page's start quality and go down by
\* exactly 0.05 per turn; when the loop has been left, the data URL is
\* within maxBytes or the quality is at or under the floor.
C21_LoopConverges ==
  npc \in {"encoding", "returned", "failed", "loading"} /\ qualities # <<>> =>
     /\ Len(qualities) <= ((Opts(page).quality - Opts(page).floor) \div 5) + 2
     /\ qualities[1] = Opts(page).quality
     /\ \A i \in 1..(Len(qualities) - 1) : qualities[i + 1] = qualities[i] - 5
     /\ currentQuality = qualities[Len(qualities)]
     /\ npc # "encoding" =>
           \/ ~TooLong(page, outDataUrl)
           \/ currentQuality <= Opts(page).floor

C21_Witness ==
  /\ page = "series" /\ npc = "returned"
  /\ Len(qualities) = 11
  /\ TooLong(page, outDataUrl)
  /\ currentQuality <= Opts(page).floor

\* C24: every quality passed to toDataURL is at least the floor of the
\* page's loop: 0.4 on series, critique and who, 0.5 on abstractify.
C24_NeverBelowFloor ==
  \A i \in 1..Len(qualities) : qualities[i] >= Opts(page).floor

\* a text that holds no candidate: empty, not JSON, or JSON that is null
\* or a primitive
NoCandidate(t) == t.len = 0 \/ t.json = SyntaxError \/ t.json.t \in {"null", "num", "str", "bool"}

\* C25: a completion without content gives the empty text; a text that is
\* empty, not JSON, or JSON null or a primitive is followed by the strict
\* call when it answers the lenient call of a route that retries, and by
\* 502 when it answers the last call; the response is never 500.
C25_NoCandidateIsNoCrash ==
  \A i \in 1..Len(calls) :
     Returned(i) =>
        /\ calls[i].reply.content = JNull => TextOf(i).len = 0
        /\ NoCandidate(TextOf(i)) =>
              /\ (i = 1 /\ route # "statement") => (Len(calls) = 2 /\ calls[2].strict)
              /\ (i = Last /\ Answered) => resp.status = 502
              /\ (Answered /\ \A j \in 1..Len(calls) : Returned(j)) => resp.status # 500

C25_Witness ==
  /\ Answered /\ Len(calls) = 2
  /\ calls[1].reply = Completion(JNull)
  /\ Returned(2) /\ TextOf(2).json = JNum(42)
  /\ resp.status = 502

\* C26: scaleToFit returns a width of at least 1 and a height of at least 1.
C26_NeverZero ==
  (fn \in ScaleFunctions /\ out # NotApplied) =>
     /\ out.v.width >= 1
     /\ out.v.height >= 1

\* C27: the scaleToFit of the series, critique and who pages and the one of
\* the abstractify page return the same width and height for the same w, h
\* and maxEdge.
C27_SameDimensions ==
  (fn \in ScaleFunctions /\ out # NotApplied) =>
     /\ out.v = scaleToFit(arg.w, arg.h, arg.maxEdge, arg.halfUp)
     /\ out.v = abstractifyScaleToFit(arg.w, arg.h, arg.maxEdge, arg.halfUp)

C27_Witness ==
  /\ fn = "scaleToFit"
  /\ arg = Dims(3024, 4032, 1200, TRUE)
  /\ out = Returns(abstractifyScaleToFit(3024, 4032, 1200, TRUE))
  /\ out.v = [width |-> 900, height |-> 1200]

\* the request settled by the last step failed: the response was not OK,
\* its payload holds an error, or the fetch threw
Failure(o) == o.k = "throw" \/ (o.k = "json" /\ (~o.ok \/ o.error # ""))

\* C22: on every tool page a file whose type does not start with "image/"
\* is rejected before normalization: no read, decode or encode is started,
\* an error is surfaced, and imageDataUrl, result and loading stay as they
\* were.
C22_NonImageRejected ==
  [][ (event'.k = "selected" /\ ~IsImage(event'.file)) =>
        /\ reading' = reading
        /\ UNCHANGED clientVars
        /\ (banner' # "" \/ event'.alert # "")
        /\ image' = image
        /\ result' = result
        /\ loading' = loading ]_vars

C22_Witness ==
  /\ tool = "series"
  /\ event.k = "selected" /\ ~IsImage(event.file)
  /\ event.alert = "Please select an image file."
  /\ image # NoImage
  /\ result # NoResult
  /\ ~loading

\* C23: when a generate request fails on a tool page, the error is
\* surfaced, imageDataUrl is what it was, result is null afterwards and
\* loading is false.
C23_FailureLeavesImage ==
  [][ (event'.k = "settled" /\ Failure(event'.outcome)) =>
        /\ (banner' # "" \/ event'.alert # "")
        /\ image' = image
        /\ result' = NoResult
        /\ loading' = FALSE ]_vars

\* C28: on the series, critique and who pages at most one generate request
\* is in flight, and loading is true while one is in flight.
C28_OneRequestWhileLoading ==
  tool \in SeriesPages =>
     /\ Cardinality(inflight) <= 1
     /\ inflight # {} => loading

\* C29: after every step, a result that is held was generated from the
\* image that is held (no result is held for an image that was replaced or
\* removed), and a step never replaces the image held by one that was
\* selected before it.
C29_ResultOfHeldImage ==
  [][ /\ result' # NoResult => result'.from = image'.n
      /\ image'.n # 0 => image'.n >= image.n ]_vars

\* C30: a file the title page accepts gives a data URL of at most
\* 10,000,000 characters, so the title route's size test lets the page's
\* request through to the model call.
C30_AcceptedFileFitsCeiling ==
  tool \in ReaderPages =>
     /\ \A r \in reading : r.len <= MaxImageChars
     /\ image.len <= MaxImageChars
     /\ \A q \in inflight :
          titleCheck(MkBody(Txt("data:image/", q.len), Undef)) = CallModel(FALSE)

C30_Witness ==
  /\ tool = "title"
  /\ image.len = DataUrlLength([type |-> "image/vnd.adobe.photoshop", size |-> 6 * 1024 * 1024])
  /\ image.len = 8388646
  /\ \E q \in inflight : q.len = image.len

====
